---- MODULE Spec2Model ----
(***************************************************************************)
(* Fan-out query dispatcher of msticpy's QueryProviderConnectionsMixin     *)
(* (msticpy/data/core/query_provider_connections_mixin.py):                *)
(*   - _exec_synchronous_queries  (sequential executor)                    *)
(*   - _exec_queries_threaded     (thread-pool executor with one retry)    *)
(*   - _calc_split_ranges         (time range splitter)                    *)
(* Task identifiers are modelled as naturals (a totally ordered set, as    *)
(* the str keys are under Python's sorted()).  A DataFrame is modelled as  *)
(* the sequence of row blocks it holds, one block [id, pass] per task      *)
(* invocation that produced rows; pd.concat is sequence concatenation.     *)
(* Instants and durations are integers in nanoseconds.                     *)
(***************************************************************************)
EXTENDS Integers, Sequences, FiniteSets, TLC

\* ------------------------------------------------------------- bounds
MaxTasks == 2        \* tasks of a threaded dispatch
MaxSyncTasks == 3    \* tasks of a sequential dispatch (no interleavings to explore)
MaxWorkers == 2      \* max_workers of the thread pool
MaxStart == 1        \* start instants 0..MaxStart
MaxSmallDelta == 3   \* split deltas 1..MaxSmallDelta ns, and
MaxDeltaK == 3       \* split deltas 1000*k and 1000*k + 1 ns, k in 1..MaxDeltaK
MaxChunks == 3       \* the window holds 0..MaxChunks whole deltas, plus a remainder
MaxRem == 4          \* remainders within MaxRem ns of 0 or of a whole delta
TicksPerHour == 1000 \* an hour of a split request, in ns (scaled: TLC integers are 32-bit)
MaxHalfDays == 4     \* a split request's window is 1..MaxHalfDays times 12 hours
MaxCalls == 2        \* consecutive calls of _exec_split_query on one query_params object
MaxAdds == 2         \* add_connection calls on one provider

\* ------------------------------------------------------------- state
VARIABLES
    tasks,               \* the task map handed to the executor (ids, insertion order)
    supports_threading,  \* DriverProps.SUPPORTS_THREADING of the primary driver
    retry_on_error,      \* the dispatch's retry_on_error option
    max_workers,         \* DriverProps.MAX_PARALLEL of the primary driver
    pc,                  \* position of the coordinator
    query_tasks,         \* current call's query_tasks parameter (ids, insertion order)
    retry,               \* current call's retry parameter
    executor,            \* current call's ThreadPoolExecutor: none / open / shutdown
    thread_tasks,        \* current call's thread_tasks keys (ids, insertion order)
    work_queue,          \* submitted work items no worker has taken yet (FIFO)
    running,             \* ids whose invocation is executing on a worker thread
    done_order,          \* finished futures, in completion order
    awaited,             \* number of as_completed() items the loop has awaited
    sync_idx,            \* number of items the sequential loop has consumed
    results,             \* current call's results list (a list of DataFrames)
    failed_tasks_ids,    \* current call's failed_tasks_ids list
    failed_results,      \* value returned by the recursive (retry) call
    callers,             \* suspended frames of _exec_queries_threaded
    ret,                 \* what the dispatch returned (or that it raised)
    calls,               \* history: every finished task invocation, in order
    split_in,            \* (start, end, split_delta) given to _calc_split_ranges
    split_out,           \* what _calc_split_ranges returned (or that it raised)
    query_params,        \* the query_params dict object passed to _exec_split_query
    split_by,            \* the split_by string passed to _exec_split_query
    debug,               \* the debug option of _exec_split_query
    split_rets,          \* what each finished call of _exec_split_query returned
    current_connection,  \* _query_provider.current_connection (the primary's label)
    additional_connections,  \* the _additional_connections dict
    added,               \* history: number of add_connection calls made
    conn_tasks           \* the query_tasks dict built by _exec_additional_connections

vars == << tasks, supports_threading, retry_on_error, max_workers, pc, query_tasks,
           retry, executor, thread_tasks, work_queue, running, done_order, awaited,
           sync_idx, results, failed_tasks_ids, failed_results, callers, ret, calls,
           split_in, split_out, query_params, split_by, debug, split_rets,
           current_connection, additional_connections, added, conn_tasks >>

config_vars == << tasks, supports_threading, retry_on_error, max_workers >>
request_vars == << query_params, split_by, debug, split_rets >>
conn_vars == << current_connection, additional_connections, added, conn_tasks >>
split_vars == << split_in, split_out, request_vars, conn_vars >>
exec_vars == << query_tasks, retry, executor, work_queue, running, done_order,
                thread_tasks, awaited, sync_idx, results, failed_tasks_ids,
                failed_results, callers, ret, calls >>
pool_vars == << executor, work_queue, running, done_order >>

\* ------------------------------------------------------------- values
TaskIds == 1..(IF MaxTasks >= MaxSyncTasks THEN MaxTasks ELSE MaxSyncTasks)

\* What one invocation of a task can do: return a DataFrame, raise the
\* recognized query failure, or raise any other Exception.
Outcomes == {"ok", "MsticpyDataQueryError", "Exception"}

\* Task maps: dicts with distinct keys, in every insertion order.
TaskMaps(max) ==
    UNION { { s \in [1..n -> 1..max] : \A i, j \in 1..n : s[i] = s[j] => i = j }
            : n \in 1..max }

\* The rows a successful invocation of task id returns in the given pass.
TaskFrame(id, pass) == << [id |-> id, pass |-> pass] >>

\* pd.DataFrame()
EmptyDataFrame == [kind |-> "DataFrame", rows |-> << >>]

Raised == [kind |-> "raised", rows |-> << >>]
NoReturn == [kind |-> "none", rows |-> << >>]

RECURSIVE Flatten(_)
Flatten(frames) ==
    IF frames = << >> THEN << >> ELSE Head(frames) \o Flatten(Tail(frames))

\* pd.concat(results): raises ValueError on an empty list.
Concat(frames) ==
    IF frames = << >> THEN Raised ELSE [kind |-> "DataFrame", rows |-> Flatten(frames)]

Min(a, b) == IF a <= b THEN a ELSE b

\* zip(a, b): pairs up to the shorter argument.
Zip(a, b) == [i \in 1..Min(Len(a), Len(b)) |-> << a[i], b[i] >>]

\* sorted(pairs): ascending by the first component (keys are distinct dict keys,
\* so the second component is never compared).
RECURSIVE Sorted(_)
Sorted(pairs) ==
    IF pairs = << >> THEN << >>
    ELSE LET m == CHOOSE i \in 1..Len(pairs) :
                     \A j \in 1..Len(pairs) : pairs[i][1] <= pairs[j][1]
             rest == [k \in 1..(Len(pairs) - 1) |->
                          IF k < m THEN pairs[k] ELSE pairs[k + 1]]
         IN  << pairs[m] >> \o Sorted(rest)

\* [result for _, result in sorted(zip(thread_tasks, results))]
SortedResults(keys, res) ==
    LET s == Sorted(Zip(keys, res)) IN [i \in 1..Len(s) |-> s[i][2]]

\* if results: return pd.concat(results) ... return pd.DataFrame()
AggregateNoConcatGuard(res) == Concat(res)
Aggregate(res) == IF res # << >> THEN Concat(res) ELSE EmptyDataFrame

\* Depth of the current call of _exec_queries_threaded (1 = first pass).
Pass == Len(callers) + 1

\* ------------------------------------------------------------- time range splitter
\* pd.Timedelta("1ns")
OneNs == 1

\* The divisor in "split_delta / 1000".
DeltaFraction == 1000

\* pd.date_range(start, end, freq=split_delta): start, start + freq, ... while <= end.
DateRange(start, end, freq) ==
    IF end < start THEN << >>
    ELSE [i \in 1..((end - start) \div freq + 1) |-> start + (i - 1) * freq]

IndexError == [status |-> "IndexError", ranges |-> << >>]
NotCalled == [status |-> "none", ranges |-> << >>]
NoSplit == [start |-> 0, end |-> 0, split_delta |-> 0]

\* _calc_split_ranges with the final range always appended, never corrected.
CalcSplitRangesAlwaysAppend(start, end, split_delta) ==
    LET bounds == DateRange(start, end, split_delta)
        ranges == [i \in 1..(IF bounds = << >> THEN 0 ELSE Len(bounds) - 1) |->
                       << bounds[i], bounds[i + 1] - OneNs >>]
        n == Len(ranges)
    IN  IF n = 0
        THEN IndexError
        ELSE [status |-> "ok",
              ranges |-> Append(ranges, << ranges[n][2] + OneNs, end >>)]

\* _calc_split_ranges(start, end, split_delta)
CalcSplitRanges(start, end, split_delta) ==
    LET bounds == DateRange(start, end, split_delta)
        \* zip(s_ranges, e_ranges) with e_ranges advanced by one item
        ranges == [i \in 1..(IF bounds = << >> THEN 0 ELSE Len(bounds) - 1) |->
                       << bounds[i], bounds[i + 1] - OneNs >>]
        n == Len(ranges)
    IN  IF n = 0
        THEN IndexError   \* ranges[-1] on an empty list
        ELSE IF (end - ranges[n][2]) < (split_delta \div DeltaFraction)
        THEN [status |-> "ok",
              ranges |-> [ranges EXCEPT ![n] = << ranges[n][1], end >>]]
        ELSE [status |-> "ok",
              ranges |-> Append(ranges, << ranges[n][2] + OneNs, end >>)]

\* Hours and days of a split request.
HoursPerDay == 24
OneHour == TicksPerHour
OneDay == HoursPerDay * TicksPerHour

\* Inputs: every start and delta of the bounds, and every window of up to MaxChunks
\* whole deltas plus a remainder close to 0 or to a whole delta.
SplitDeltas ==
    (1..MaxSmallDelta)
        \cup { DeltaFraction * k + j : k \in 1..MaxDeltaK, j \in 0..1 }

SplitSpans(delta) ==
    { m * delta + r : m \in 0..MaxChunks,
                      r \in { x \in 0..(delta - 1) : x <= MaxRem \/ x >= delta - MaxRem } }

\* A window of 26 hours split by one day.
ScenarioInputs ==
    { [start |-> s, end |-> s + 26 * OneHour, split_delta |-> OneDay] :
          s \in 0..MaxStart }

SplitInputs ==
    UNION { { [start |-> s, end |-> s + w, split_delta |-> d] :
                  s \in 0..MaxStart, w \in SplitSpans(d) } : d \in SplitDeltas }
        \cup ScenarioInputs

\* ------------------------------------------------------------- initial state
\* No split request is in progress.
NoRequest ==
    /\ query_params = [start |-> << >>, end |-> << >>]
    /\ split_by = << >>
    /\ debug = FALSE
    /\ split_rets = << >>

\* The provider's connections play no part.
NoConnections ==
    /\ current_connection = << >>
    /\ additional_connections = << >>
    /\ added = 0
    /\ conn_tasks = << >>

Init ==
    /\ supports_threading \in BOOLEAN
    /\ tasks \in (IF supports_threading THEN TaskMaps(MaxTasks) ELSE TaskMaps(MaxSyncTasks))
    /\ retry_on_error \in BOOLEAN
    /\ max_workers \in 1..MaxWorkers
    /\ pc = "dispatch"
    /\ query_tasks = << >>
    /\ retry = FALSE
    /\ executor = "none"
    /\ thread_tasks = << >>
    /\ work_queue = << >>
    /\ running = {}
    /\ done_order = << >>
    /\ awaited = 0
    /\ sync_idx = 0
    /\ results = << >>
    /\ failed_tasks_ids = << >>
    /\ failed_results = NoReturn
    /\ callers = << >>
    /\ ret = NoReturn
    /\ calls = << >>
    /\ split_in = NoSplit
    /\ split_out = NotCalled
    /\ NoRequest
    /\ NoConnections

\* ------------------------------------------------------------- dispatcher
\* Variant of Dispatch with the routing inverted.
DispatchInverted ==
    /\ pc = "dispatch"
    /\ query_tasks' = tasks
    /\ IF ~supports_threading
       THEN /\ retry' = retry_on_error
            /\ pc' = "submit"
       ELSE /\ retry' = FALSE
            /\ pc' = "sync_loop"
    /\ UNCHANGED << config_vars, pool_vars, thread_tasks, awaited, sync_idx, results,
                    failed_tasks_ids, failed_results, callers, ret, calls, split_vars >>

\* Route the task map to the threaded or to the sequential executor.
Dispatch ==
    /\ pc = "dispatch"
    /\ query_tasks' = tasks
    /\ IF supports_threading
       THEN /\ retry' = retry_on_error
            /\ pc' = "submit"
       ELSE /\ retry' = FALSE
            /\ pc' = "sync_loop"
    /\ UNCHANGED << config_vars, pool_vars, thread_tasks, awaited, sync_idx, results,
                    failed_tasks_ids, failed_results, callers, ret, calls, split_vars >>

\* ------------------------------------------------------------- sequential executor
\* Variant of SyncStep in which the recognized query failure is not caught.
SyncStepAbortOnQueryError(outcome) ==
    /\ pc = "sync_loop"
    /\ sync_idx < Len(query_tasks)
    /\ LET con_name == query_tasks[sync_idx + 1] IN
       /\ calls' = Append(calls, [id |-> con_name, pass |-> 1, outcome |-> outcome])
       /\ sync_idx' = sync_idx + 1
       /\ IF outcome = "ok"
          THEN /\ results' = Append(results, TaskFrame(con_name, 1))
               /\ UNCHANGED << pc, ret >>
          ELSE /\ ret' = Raised
               /\ pc' = "done"
               /\ UNCHANGED results
    /\ UNCHANGED << config_vars, pool_vars, query_tasks, retry, thread_tasks, awaited,
                    failed_tasks_ids, failed_results, callers, split_vars >>

\* One iteration of the for loop: invoke the next task in insertion order.
SyncStep(outcome) ==
    /\ pc = "sync_loop"
    /\ sync_idx < Len(query_tasks)
    /\ LET con_name == query_tasks[sync_idx + 1] IN
       /\ calls' = Append(calls, [id |-> con_name, pass |-> 1, outcome |-> outcome])
       /\ sync_idx' = sync_idx + 1
       /\ IF outcome = "ok"
          THEN /\ results' = Append(results, TaskFrame(con_name, 1))
               /\ UNCHANGED << pc, ret >>
          ELSE IF outcome = "MsticpyDataQueryError"
          THEN UNCHANGED << results, pc, ret >>
          ELSE /\ ret' = Raised
               /\ pc' = "done"
               /\ UNCHANGED results
    /\ UNCHANGED << config_vars, pool_vars, query_tasks, retry, thread_tasks, awaited,
                    failed_tasks_ids, failed_results, callers, split_vars >>

\* After the loop: concatenate, or return an empty DataFrame.
SyncReturn ==
    /\ pc = "sync_loop"
    /\ sync_idx = Len(query_tasks)
    /\ ret' = Aggregate(results)
    /\ pc' = "done"
    /\ UNCHANGED << config_vars, pool_vars, query_tasks, retry, thread_tasks, awaited,
                    sync_idx, results, failed_tasks_ids, failed_results, callers, calls,
                    split_vars >>

\* ------------------------------------------------------------- threaded executor
\* with ThreadPoolExecutor(max_workers) as executor: submit every task with
\* run_in_executor, in the insertion order of query_tasks.
SubmitAll ==
    /\ pc = "submit"
    /\ executor' = "open"
    /\ thread_tasks' = query_tasks
    /\ work_queue' = query_tasks
    /\ running' = {}
    /\ done_order' = << >>
    /\ results' = << >>
    /\ failed_tasks_ids' = << >>
    /\ awaited' = 0
    /\ pc' = "await"
    /\ UNCHANGED << config_vars, query_tasks, retry, sync_idx, failed_results, callers,
                    ret, calls, split_vars >>

\* Variant of WorkerStart for a pool that starts a worker for every queued item.
WorkerStartUnbounded ==
    /\ executor = "open"
    /\ work_queue # << >>
    /\ running' = running \cup {Head(work_queue)}
    /\ work_queue' = Tail(work_queue)
    /\ UNCHANGED << config_vars, pc, query_tasks, retry, executor, thread_tasks,
                    done_order, awaited, sync_idx, results, failed_tasks_ids,
                    failed_results, callers, ret, calls, split_vars >>

\* A pool worker takes the oldest queued work item; at most max_workers run.
WorkerStart ==
    /\ executor = "open"
    /\ work_queue # << >>
    /\ Cardinality(running) < max_workers
    /\ running' = running \cup {Head(work_queue)}
    /\ work_queue' = Tail(work_queue)
    /\ UNCHANGED << config_vars, pc, query_tasks, retry, executor, thread_tasks,
                    done_order, awaited, sync_idx, results, failed_tasks_ids,
                    failed_results, callers, ret, calls, split_vars >>

\* A running invocation returns or raises; its future completes.
WorkerFinish(id, outcome) ==
    /\ id \in running
    /\ running' = running \ {id}
    /\ done_order' = Append(done_order, [id |-> id, outcome |-> outcome])
    /\ calls' = Append(calls, [id |-> id, pass |-> Pass, outcome |-> outcome])
    /\ UNCHANGED << config_vars, pc, query_tasks, retry, executor, thread_tasks,
                    work_queue, awaited, sync_idx, results, failed_tasks_ids,
                    failed_results, callers, ret, split_vars >>

\* Variant of AwaitNext without the except clause: the exception propagates.
AwaitNextNoExcept ==
    /\ pc = "await"
    /\ awaited < Len(thread_tasks)
    /\ awaited < Len(done_order)
    /\ LET thread_task == done_order[awaited + 1] IN
       /\ awaited' = awaited + 1
       /\ IF thread_task.outcome = "ok"
          THEN /\ results' = Append(results, TaskFrame(thread_task.id, Pass))
               /\ UNCHANGED << failed_tasks_ids, pc, ret, callers, executor >>
          ELSE /\ ret' = Raised
               /\ pc' = "done"
               /\ callers' = << >>
               /\ executor' = "shutdown"
               /\ UNCHANGED << results, failed_tasks_ids >>
    /\ UNCHANGED << config_vars, query_tasks, retry, thread_tasks, work_queue, running,
                    done_order, sync_idx, failed_results, calls, split_vars >>

\* One iteration of "for query_id, thread_task in ids_and_tasks.items()":
\* ids_and_tasks = dict(zip(thread_tasks, as_completed(...))) pairs the k-th key of
\* thread_tasks (insertion order) with the k-th item of as_completed, and awaiting
\* the k-th item yields the outcome of the k-th future to complete.
AwaitNext ==
    /\ pc = "await"
    /\ awaited < Len(thread_tasks)
    /\ awaited < Len(done_order)
    /\ LET query_id == thread_tasks[awaited + 1]
           thread_task == done_order[awaited + 1]
       IN
       /\ awaited' = awaited + 1
       /\ IF thread_task.outcome = "ok"
          THEN /\ results' = Append(results, TaskFrame(thread_task.id, Pass))
               /\ UNCHANGED failed_tasks_ids
          ELSE /\ failed_tasks_ids' = Append(failed_tasks_ids, query_id)
               /\ UNCHANGED results
    /\ UNCHANGED << config_vars, pc, query_tasks, retry, pool_vars, thread_tasks,
                    sync_idx, failed_results, callers, ret, calls, split_vars >>

\* Variant of ExitPool in which the pool is left open after the loop.
ExitPoolNoShutdown ==
    /\ pc = "await"
    /\ awaited = Len(thread_tasks)
    /\ pc' = "sort"
    /\ UNCHANGED << config_vars, query_tasks, retry, pool_vars, thread_tasks, awaited,
                    sync_idx, results, failed_tasks_ids, failed_results, callers, ret,
                    calls, split_vars >>

\* The loop is over; leaving the with block shuts the pool down, waiting for
\* its workers (shutdown(wait=True)).
ExitPool ==
    /\ pc = "await"
    /\ awaited = Len(thread_tasks)
    /\ work_queue = << >>
    /\ running = {}
    /\ executor' = "shutdown"
    /\ pc' = "sort"
    /\ UNCHANGED << config_vars, query_tasks, retry, thread_tasks, work_queue, running,
                    done_order, awaited, sync_idx, results, failed_tasks_ids,
                    failed_results, callers, ret, calls, split_vars >>

\* results = [result for _, result in sorted(zip(thread_tasks, results))]
SortStep ==
    /\ pc = "sort"
    /\ results' = SortedResults(thread_tasks, results)
    /\ pc' = "retry_check"
    /\ UNCHANGED << config_vars, query_tasks, retry, pool_vars, thread_tasks, awaited,
                    sync_idx, failed_tasks_ids, failed_results, callers, ret, calls,
                    split_vars >>

\* The frame of a call suspended in "await _exec_queries_threaded(...)".
Frame ==
    [query_tasks |-> query_tasks, retry |-> retry, thread_tasks |-> thread_tasks,
     done_order |-> done_order, awaited |-> awaited, results |-> results,
     failed_tasks_ids |-> failed_tasks_ids, executor |-> executor]

\* Variant of RetryCall that passes its own retry flag on (stopped at a third
\* nested call).
RetryCallKeepRetry ==
    /\ pc = "retry_check"
    /\ retry /\ failed_tasks_ids # << >>
    /\ Len(callers) < 2
    /\ callers' = Append(callers, Frame)
    /\ query_tasks' = failed_tasks_ids
    /\ retry' = retry
    /\ executor' = "none"
    /\ pc' = "submit"
    /\ UNCHANGED << config_vars, thread_tasks, work_queue, running, done_order, awaited,
                    sync_idx, results, failed_tasks_ids, failed_results, ret, calls,
                    split_vars >>

\* if retry and failed_tasks_ids: call _exec_queries_threaded on the tasks named by
\* failed_tasks_ids, with retry=False.
RetryCall ==
    /\ pc = "retry_check"
    /\ retry /\ failed_tasks_ids # << >>
    /\ callers' = Append(callers, Frame)
    /\ query_tasks' = failed_tasks_ids
    /\ retry' = FALSE
    /\ executor' = "none"
    /\ pc' = "submit"
    /\ UNCHANGED << config_vars, thread_tasks, work_queue, running, done_order, awaited,
                    sync_idx, results, failed_tasks_ids, failed_results, ret, calls,
                    split_vars >>

\* The retry branch is not taken.
NoRetry ==
    /\ pc = "retry_check"
    /\ ~(retry /\ failed_tasks_ids # << >>)
    /\ pc' = "return"
    /\ UNCHANGED << config_vars, query_tasks, retry, pool_vars, thread_tasks, awaited,
                    sync_idx, results, failed_tasks_ids, failed_results, callers, ret,
                    calls, split_vars >>

\* if results: return pd.concat(results, ignore_index=True); else return
\* pd.DataFrame().  The outermost call returns to the dispatcher, the retry call
\* returns into its caller's failed_results.
Return ==
    /\ pc = "return"
    /\ IF callers = << >>
       THEN /\ ret' = Aggregate(results)
            /\ pc' = "done"
            /\ UNCHANGED << query_tasks, retry, thread_tasks, done_order, awaited,
                            results, failed_tasks_ids, failed_results, callers,
                            executor >>
       ELSE LET caller == callers[Len(callers)] IN
            /\ failed_results' = Aggregate(results)
            /\ callers' = SubSeq(callers, 1, Len(callers) - 1)
            /\ query_tasks' = caller.query_tasks
            /\ retry' = caller.retry
            /\ thread_tasks' = caller.thread_tasks
            /\ done_order' = caller.done_order
            /\ awaited' = caller.awaited
            /\ results' = caller.results
            /\ failed_tasks_ids' = caller.failed_tasks_ids
            /\ executor' = caller.executor
            /\ pc' = "after_retry"
            /\ UNCHANGED ret
    /\ UNCHANGED << config_vars, work_queue, running, sync_idx, calls, split_vars >>

\* if not failed_results.empty: results.append(failed_results)
AppendRetry ==
    /\ pc = "after_retry"
    /\ IF failed_results.kind = "raised"
       THEN /\ ret' = Raised
            /\ pc' = "done"
            /\ UNCHANGED results
       ELSE /\ results' = IF failed_results.rows # << >>
                          THEN Append(results, failed_results.rows)
                          ELSE results
            /\ pc' = "return"
            /\ UNCHANGED ret
    /\ UNCHANGED << config_vars, query_tasks, retry, pool_vars, thread_tasks, awaited,
                    sync_idx, failed_tasks_ids, failed_results, callers, calls,
                    split_vars >>

\* ------------------------------------------------------------- specification
Next ==
    \/ Dispatch
    \/ \E outcome \in Outcomes : SyncStep(outcome)
    \/ SyncReturn
    \/ SubmitAll
    \/ WorkerStart
    \/ \E id \in TaskIds, outcome \in Outcomes : WorkerFinish(id, outcome)
    \/ AwaitNext
    \/ ExitPool
    \/ SortStep
    \/ RetryCall
    \/ NoRetry
    \/ Return
    \/ AppendRetry

Spec == Init /\ [][Next]_vars

\* Every invocation terminates, idle pool workers take queued items and the
\* coordinator runs whenever it can: some enabled step is eventually taken.
SpecFair == Spec /\ WF_vars(Next)

\* ------------------------------------------------------------- splitter specification
InitSplit ==
    /\ tasks = << 1 >>
    /\ supports_threading = FALSE
    /\ retry_on_error = FALSE
    /\ max_workers = 1
    /\ pc = "split"
    /\ query_tasks = << >>
    /\ retry = FALSE
    /\ executor = "none"
    /\ thread_tasks = << >>
    /\ work_queue = << >>
    /\ running = {}
    /\ done_order = << >>
    /\ awaited = 0
    /\ sync_idx = 0
    /\ results = << >>
    /\ failed_tasks_ids = << >>
    /\ failed_results = NoReturn
    /\ callers = << >>
    /\ ret = NoReturn
    /\ calls = << >>
    /\ split_in \in SplitInputs
    /\ split_out = NotCalled
    /\ NoRequest
    /\ NoConnections

\* ranges = _calc_split_ranges(start, end, split_delta)
CalcSplitRangesCall ==
    /\ pc = "split"
    /\ split_out' = CalcSplitRanges(split_in.start, split_in.end, split_in.split_delta)
    /\ pc' = "split_done"
    /\ UNCHANGED << config_vars, query_tasks, retry, pool_vars, thread_tasks, awaited,
                    sync_idx, results, failed_tasks_ids, failed_results, callers, ret,
                    calls, split_in, request_vars, conn_vars >>

NextSplit == CalcSplitRangesCall

SpecSplit == InitSplit /\ [][NextSplit]_vars

\* ------------------------------------------------------------- split query
\* Strings are sequences of one-character strings.
Digits == << "0", "1", "2", "3", "4", "5", "6", "7", "8", "9" >>

IsDigit(c) == \E i \in DOMAIN Digits : Digits[i] = c

DigitValue(c) == (CHOOSE i \in DOMAIN Digits : Digits[i] = c) - 1

\* str.strip()
RECURSIVE LStrip(_)
LStrip(str) ==
    IF str # << >> /\ Head(str) = " " THEN LStrip(Tail(str)) ELSE str

RECURSIVE RStrip(_)
RStrip(str) ==
    IF str # << >> /\ str[Len(str)] = " "
    THEN RStrip(SubSeq(str, 1, Len(str) - 1)) ELSE str

Strip(str) == LStrip(RStrip(str))

\* str.endswith(c) for a one-character c
EndsWith(str, c) == str # << >> /\ str[Len(str)] = c

\* str.replace(old, new) for one-character old and new
Replace(str, old, new) == [i \in DOMAIN str |-> IF str[i] = old THEN new ELSE str[i]]

IsNotSpace(c) == c # " "

RECURSIVE DigitPrefixLen(_)
DigitPrefixLen(str) ==
    IF str # << >> /\ IsDigit(Head(str)) THEN 1 + DigitPrefixLen(Tail(str)) ELSE 0

RECURSIVE Number(_)
Number(digits) ==
    IF digits = << >> THEN 0
    ELSE Number(SubSeq(digits, 1, Len(digits) - 1)) * 10 + DigitValue(digits[Len(digits)])

ValueError == [ok |-> FALSE, value |-> 0]

\* pd.Timedelta(str) for the strings "<digits><unit>": blanks are skipped, a number
\* without unit is in nanoseconds, the units are D (day) and h (hour); anything
\* else raises ValueError.
ParseTimedelta(str) ==
    LET t == SelectSeq(str, IsNotSpace)
        k == DigitPrefixLen(t)
        n == Number(SubSeq(t, 1, k))
        unit == SubSeq(t, k + 1, Len(t))
    IN  IF k = 0 THEN ValueError
        ELSE IF unit = << >> THEN [ok |-> TRUE, value |-> n]
        ELSE IF unit = << "D" >> THEN [ok |-> TRUE, value |-> n * OneDay]
        ELSE IF unit = << "h" >> THEN [ok |-> TRUE, value |-> n * OneHour]
        ELSE ValueError

\* if split_by.strip().endswith("H"): split_by = split_by.replace("H", "h")
NormalizeSplitBy(str) ==
    IF EndsWith(Strip(str), "H") THEN Replace(str, "H", "h") ELSE str

SplitDelta(str) ==
    LET parsed == ParseTimedelta(NormalizeSplitBy(str))
    IN  IF parsed.ok THEN parsed.value ELSE OneDay

\* query_source.create_query(formatters, start=q_start, end=q_end, **query_params):
\* the query text is an opaque function of its parameters.
CreateQuery(q_start, q_end, params) ==
    [start |-> q_start, end |-> q_end, params |-> params]

\* d[key] = value on a dict kept as its items in insertion order.
DictPut(d, key, value) ==
    IF \E i \in DOMAIN d : d[i][1] = key
    THEN [i \in DOMAIN d |-> IF d[i][1] = key THEN << key, value >> ELSE d[i]]
    ELSE Append(d, << key, value >>)

\* A dict built from key/value pairs, in their order.
RECURSIVE DictOf(_)
DictOf(pairs) ==
    IF pairs = << >> THEN << >>
    ELSE LET n == Len(pairs)
         IN  DictPut(DictOf(SubSeq(pairs, 1, n - 1)), pairs[n][1], pairs[n][2])

\* split_queries = {(q_start, q_end): create_query(...) for q_start, q_end in ranges}
SplitQueries(ranges, params) ==
    DictOf([i \in DOMAIN ranges |->
                << ranges[i], CreateQuery(ranges[i][1], ranges[i][2], params) >>])

\* Return values of _exec_split_query that are not a DataFrame.
NoneResult == [kind |-> "None", entries |-> << >>]
RaisedResult == [kind |-> "raised", entries |-> << >>]
Transcript(split_queries) == [kind |-> "transcript", entries |-> split_queries]

\* The split_by strings of the requests.
SplitBys ==
    { << "1", "D" >>, << "2", "D" >>, << "1", "2", "h" >>, << "1", "2", "H" >>,
      << " ", "1", "2", "H", " " >>, << "a", "b", "c" >>, << "D" >>, << "1", "x" >> }

\* The query_params objects of the requests: start and end each present or absent
\* (an absent key is << >>, a present one holds its value).
QueryParams ==
    { [start |-> st, end |-> en] :
          st \in { << >>, << 0 >> },
          en \in { << >> } \cup { << k * 12 * OneHour >> : k \in 1..MaxHalfDays } }

InitSplitQuery ==
    /\ supports_threading \in BOOLEAN
    /\ tasks = << >>
    /\ retry_on_error = FALSE
    /\ max_workers = 1
    /\ pc = "split_entry"
    /\ query_tasks = << >>
    /\ retry = FALSE
    /\ executor = "none"
    /\ thread_tasks = << >>
    /\ work_queue = << >>
    /\ running = {}
    /\ done_order = << >>
    /\ awaited = 0
    /\ sync_idx = 0
    /\ results = << >>
    /\ failed_tasks_ids = << >>
    /\ failed_results = NoReturn
    /\ callers = << >>
    /\ ret = NoReturn
    /\ calls = << >>
    /\ split_in = NoSplit
    /\ split_out = NotCalled
    /\ query_params \in QueryParams
    /\ split_by \in SplitBys
    /\ debug \in BOOLEAN
    /\ split_rets = << >>
    /\ NoConnections

\* Variant of SplitEntry without the check of start and end.
SplitEntryNoCheck ==
    /\ pc = "split_entry"
    /\ query_params' = [start |-> << >>, end |-> << >>]
    /\ split_in' = [start |-> IF query_params.start = << >> THEN 0 ELSE query_params.start[1],
                    end |-> IF query_params.end = << >> THEN 0 ELSE query_params.end[1],
                    split_delta |-> 0]
    /\ pc' = "parse_split_by"
    /\ UNCHANGED << config_vars, exec_vars, split_out, split_by, debug, split_rets,
                    conn_vars >>

\* start = query_params.pop("start", None); end = query_params.pop("end", None)
\* if not (start and end): warn and return None
SplitEntry ==
    /\ pc = "split_entry"
    /\ query_params' = [start |-> << >>, end |-> << >>]
    /\ IF query_params.start = << >> \/ query_params.end = << >>
       THEN /\ split_rets' = Append(split_rets, NoneResult)
            /\ pc' = "split_returned"
            /\ UNCHANGED split_in
       ELSE /\ split_in' = [start |-> query_params.start[1],
                            end |-> query_params.end[1],
                            split_delta |-> 0]
            /\ pc' = "parse_split_by"
            /\ UNCHANGED split_rets
    /\ UNCHANGED << config_vars, exec_vars, split_out, split_by, debug, conn_vars >>

\* _create_split_queries: the split delta of split_by, one day if it does not parse.
ParseSplitBy ==
    /\ pc = "parse_split_by"
    /\ split_in' = [split_in EXCEPT !.split_delta = SplitDelta(split_by)]
    /\ pc' = "split"
    /\ UNCHANGED << config_vars, exec_vars, split_out, request_vars, conn_vars >>

\* _calc_split_ranges raised: the exception leaves _exec_split_query.
SplitRaise ==
    /\ pc = "split_done"
    /\ split_out.status # "ok"
    /\ split_rets' = Append(split_rets, RaisedResult)
    /\ pc' = "split_returned"
    /\ UNCHANGED << config_vars, exec_vars, split_in, split_out, query_params, split_by,
                    debug, conn_vars >>

\* Variant of DebugReturn that builds the tasks and hands them on all the same.
DebugReturnAndRun ==
    /\ pc = "split_done"
    /\ split_out.status = "ok"
    /\ debug
    /\ split_rets' = Append(split_rets,
                            Transcript(SplitQueries(split_out.ranges, query_params)))
    /\ tasks' = [i \in DOMAIN split_out.ranges |-> i]
    /\ pc' = "dispatch"
    /\ UNCHANGED << supports_threading, retry_on_error, max_workers, exec_vars,
                    split_in, split_out, query_params, split_by, debug, conn_vars >>

\* if debug: return the transcript of split_queries, "<start>-<end>\n<query>" per item.
DebugReturn ==
    /\ pc = "split_done"
    /\ split_out.status = "ok"
    /\ debug
    /\ split_rets' = Append(split_rets,
                            Transcript(SplitQueries(split_out.ranges, query_params)))
    /\ pc' = "split_returned"
    /\ UNCHANGED << config_vars, exec_vars, split_in, split_out, query_params, split_by,
                    debug, conn_vars >>

\* _create_split_query_tasks: one task per item of split_queries, keyed
\* "<start>-<end>"; the keys ascend with the ranges, and a task is identified here
\* by the position of its range.
BuildSplitTasks ==
    /\ pc = "split_done"
    /\ split_out.status = "ok"
    /\ ~debug
    /\ tasks' = [i \in DOMAIN SplitQueries(split_out.ranges, query_params) |-> i]
    /\ pc' = "dispatch"
    /\ UNCHANGED << supports_threading, retry_on_error, max_workers, exec_vars,
                    split_vars >>

\* The caller calls _exec_split_query again, passing the same query_params object.
CallAgain ==
    /\ pc = "split_returned"
    /\ Len(split_rets) < MaxCalls
    /\ split_in' = NoSplit
    /\ split_out' = NotCalled
    /\ pc' = "split_entry"
    /\ UNCHANGED << config_vars, exec_vars, request_vars, conn_vars >>

\* A split request; its tasks are run by the sequential executor (the threaded
\* executor's runs are those of Spec).
NextSplitQuery ==
    \/ SplitEntry
    \/ ParseSplitBy
    \/ CalcSplitRangesCall
    \/ SplitRaise
    \/ DebugReturn
    \/ BuildSplitTasks
    \/ Dispatch
    \/ \E outcome \in Outcomes : SyncStep(outcome)
    \/ SyncReturn
    \/ CallAgain

SpecSplitQuery == InitSplitQuery /\ [][NextSplitQuery]_vars

\* ------------------------------------------------------------- connections
\* str(n) for n >= 0, as the sequence of its decimal digits.
RECURSIVE Str(_)
Str(n) ==
    IF n < 10 THEN << Digits[n + 1] >>
    ELSE Str(n \div 10) \o << Digits[(n % 10) + 1] >>

\* Strings are sequences of characters; the empty one stands for None as well
\* ("alias or ..." and "current_connection or ..." treat both alike).
Aliases == { << >>, << "0" >>, << "1" >>, << "a" >> }
ConnectionLabels == { << >>, << "a" >>, << "p" >> }

\* The driver of the primary connection; the driver made by the k-th add_connection
\* call is k.
PrimaryDriver == 0

\* d.update(other) on dicts kept as items in insertion order.
RECURSIVE DictUpdate(_, _)
DictUpdate(d, other) ==
    IF other = << >> THEN d
    ELSE DictUpdate(DictPut(d, Head(other)[1], Head(other)[2]), Tail(other))

\* query_tasks of _exec_additional_connections: the primary's task under
\* current_connection or "0", updated with one task per item of
\* _additional_connections.
ConnectionTasks(label, connections) ==
    DictUpdate(<< << IF label # << >> THEN label ELSE << "0" >>, PrimaryDriver >> >>,
               connections)

InitConn ==
    /\ tasks = << >>
    /\ supports_threading \in BOOLEAN
    /\ retry_on_error = FALSE
    /\ max_workers = 1
    /\ pc = "conn_idle"
    /\ query_tasks = << >>
    /\ retry = FALSE
    /\ executor = "none"
    /\ thread_tasks = << >>
    /\ work_queue = << >>
    /\ running = {}
    /\ done_order = << >>
    /\ awaited = 0
    /\ sync_idx = 0
    /\ results = << >>
    /\ failed_tasks_ids = << >>
    /\ failed_results = NoReturn
    /\ callers = << >>
    /\ ret = NoReturn
    /\ calls = << >>
    /\ split_in = NoSplit
    /\ split_out = NotCalled
    /\ NoRequest
    /\ current_connection \in ConnectionLabels
    /\ additional_connections = << >>
    /\ added = 0
    /\ conn_tasks = << >>

\* add_connection(connection_str, alias)
AddConnection(alias) ==
    /\ pc = "conn_idle"
    /\ added < MaxAdds
    /\ LET driver_key == IF alias # << >> THEN alias
                         ELSE Str(Len(additional_connections))
       IN  additional_connections' = DictPut(additional_connections, driver_key, added + 1)
    /\ added' = added + 1
    /\ UNCHANGED << config_vars, pc, exec_vars, split_in, split_out, request_vars,
                    current_connection, conn_tasks >>

\* _exec_additional_connections up to the routing: build the task map.
BuildConnectionTasks ==
    /\ pc = "conn_idle"
    /\ conn_tasks' = ConnectionTasks(current_connection, additional_connections)
    /\ tasks' = [i \in DOMAIN conn_tasks' |-> i]
    /\ pc' = "dispatch"
    /\ UNCHANGED << supports_threading, retry_on_error, max_workers, exec_vars,
                    split_in, split_out, request_vars, current_connection,
                    additional_connections, added >>

\* A provider with added connections; the task map is run by the sequential
\* executor (the threaded executor's runs are those of Spec).
NextConn ==
    \/ \E alias \in Aliases : AddConnection(alias)
    \/ BuildConnectionTasks
    \/ Dispatch
    \/ \E outcome \in Outcomes : SyncStep(outcome)
    \/ SyncReturn

SpecConn == InitConn /\ [][NextConn]_vars

\* ------------------------------------------------------------- properties
Range(s) == { s[i] : i \in DOMAIN s }

Ascending(s) == \A i, j \in DOMAIN s : i < j => s[i] < s[j]

RowIds(rows) == [i \in DOMAIN rows |-> rows[i].id]

IsFirstPassRow(r) == r.pass = 1

\* Number of finished invocations of task id in pass p.
CallCount(id, p) ==
    Cardinality({ i \in DOMAIN calls : calls[i].id = id /\ calls[i].pass = p })

\* Tasks whose invocation in pass p raised.
RaisedIn(p) ==
    { calls[i].id : i \in { k \in DOMAIN calls : calls[k].pass = p /\ calls[k].outcome # "ok" } }

Called(id, p, outcome) ==
    \E i \in DOMAIN calls :
        calls[i].id = id /\ calls[i].pass = p /\ calls[i].outcome = outcome

\* The first pass of the threaded executor has left its await loop.
FirstPassOver ==
    callers # << >> \/ pc \in {"sort", "retry_check", "return", "after_retry", "done"}

\* The first pass has sorted its results and is about to decide on the retry.
AtRetryDecision == supports_threading /\ pc = "retry_check" /\ callers = << >>

\* Every task of the batch was invoked and no invocation of any pass succeeded.
AllTasksFailed ==
    /\ \A id \in Range(tasks) : CallCount(id, 1) >= 1
    /\ \A i \in DOMAIN calls : calls[i].outcome # "ok"

\* The rows of the successful invocations of a call history, in its order.
RECURSIVE OkRows(_)
OkRows(history) ==
    IF history = << >> THEN << >>
    ELSE (IF Head(history).outcome = "ok"
          THEN TaskFrame(Head(history).id, Head(history).pass)
          ELSE << >>) \o OkRows(Tail(history))

\* What _exec_synchronous_queries returns for a task map none of whose tasks fails.
SequentialAggregate(ts) == Aggregate([i \in DOMAIN ts |-> TaskFrame(ts[i], 1)])

\* C1: in every finished threaded dispatch, the first-pass results in the
\* aggregate are in ascending order of the identifier of the task that produced
\* each of them, whatever the completion order was.
C1_FirstPassRowsAscendingByProducer ==
    (supports_threading /\ pc = "done")
        => Ascending(RowIds(SelectSeq(ret.rows, IsFirstPassRow)))

\* C2: in the threaded executor a raising task cancels nothing: the dispatch never
\* raises, no task is invoked more than once in the first pass, and once the first
\* pass is over every task of the batch has been invoked exactly once in it and
\* has finished; the finished dispatch returns a DataFrame.
C2_FailureIsolation ==
    supports_threading =>
        /\ ret.kind # "raised"
        /\ \A id \in TaskIds : CallCount(id, 1) <= (IF id \in Range(tasks) THEN 1 ELSE 0)
        /\ FirstPassOver => \A id \in Range(tasks) : CallCount(id, 1) = 1
        /\ pc = "done" => ret.kind = "DataFrame"

\* A finished threaded dispatch without retry in which the first task to complete
\* raised and a task completing after it succeeded and is in the aggregate.
C2_Witness ==
    /\ supports_threading /\ ~retry_on_error /\ pc = "done"
    /\ Len(calls) >= 2
    /\ calls[1].pass = 1 /\ calls[1].outcome = "Exception"
    /\ calls[2].pass = 1 /\ calls[2].outcome = "ok"
    /\ Len(ret.rows) = 1

\* C3: with retry enabled, the identifiers recorded as failed after the first pass
\* are exactly the tasks whose first-pass invocation raised.
C3_FailedIdsAreRaisedTasks ==
    (AtRetryDecision /\ retry_on_error) => Range(failed_tasks_ids) = RaisedIn(1)

\* C4: with retry enabled and exactly one task f failing in the first pass, the
\* finished dispatch returned a DataFrame and either f succeeded on its second
\* invocation and the aggregate holds f's retried rows, or f failed on its second
\* invocation too and the aggregate holds no rows of f.
C4_SingleFailureRetried ==
    (supports_threading /\ retry_on_error /\ pc = "done" /\ Cardinality(RaisedIn(1)) = 1)
        => LET f == CHOOSE id \in RaisedIn(1) : TRUE IN
           /\ ret.kind = "DataFrame"
           /\ \/ /\ Called(f, 2, "ok")
                 /\ [id |-> f, pass |-> 2] \in Range(ret.rows)
              \/ /\ f \in RaisedIn(2)
                 /\ f \notin Range(RowIds(ret.rows))

\* C5 (as stated): whenever every task of the batch failed, in either mode, the
\* finished dispatch returned the empty DataFrame.
C5_AllFailEmpty ==
    (pc = "done" /\ AllTasksFailed) => ret = EmptyDataFrame

\* C5 (amended): whenever every task of the batch failed, the finished dispatch
\* returned the empty DataFrame: in threaded mode for every kind of failure, retry
\* pass included; in sequential mode when every failure is the recognized query
\* failure.
C5_AllFailEmptyAmended ==
    (/\ pc = "done"
     /\ AllTasksFailed
     /\ ~supports_threading => \A i \in DOMAIN calls : calls[i].outcome = "MsticpyDataQueryError")
        => ret = EmptyDataFrame

\* A finished threaded dispatch of several tasks with retry, in which every task
\* failed in the first pass and again in the retry pass.
C5_Witness ==
    /\ supports_threading /\ retry_on_error /\ pc = "done"
    /\ Len(tasks) >= 2
    /\ AllTasksFailed
    /\ \A id \in Range(tasks) : CallCount(id, 2) = 1

\* A finished sequential dispatch of several tasks all of which raised the
\* recognized query failure.
C5_WitnessSequential ==
    /\ ~supports_threading /\ pc = "done"
    /\ Len(tasks) >= 2
    /\ AllTasksFailed
    /\ ret = EmptyDataFrame

\* C6: an unrecognized failure (outcome "Exception") aborts a sequential dispatch
\* (it raises and no later task is invoked), while in a threaded dispatch it is
\* caught: nothing is raised, the task that raised is recorded as failed, every
\* task of the batch is invoked, and the dispatch returns a DataFrame.
C6_FailureAsymmetry ==
    /\ ~supports_threading =>
           \A i \in DOMAIN calls :
               calls[i].outcome = "Exception"
                   => pc = "done" /\ ret = Raised /\ i = Len(calls)
    /\ supports_threading =>
           /\ ret.kind # "raised"
           /\ AtRetryDecision =>
                  /\ \A id \in Range(tasks) : CallCount(id, 1) = 1
                  /\ \A id \in Range(tasks) :
                         Called(id, 1, "Exception") => id \in Range(failed_tasks_ids)
           /\ pc = "done" => ret.kind = "DataFrame"

\* The part of C6 that does not say which identifier is recorded: a sequential
\* dispatch aborts on an unrecognized failure, a threaded one records one failed
\* identifier per raising invocation, invokes every task and returns.
C6_AsymmetryUpToRecordedId ==
    /\ ~supports_threading =>
           \A i \in DOMAIN calls :
               calls[i].outcome = "Exception"
                   => pc = "done" /\ ret = Raised /\ i = Len(calls)
    /\ supports_threading =>
           /\ ret.kind # "raised"
           /\ AtRetryDecision =>
                  /\ \A id \in Range(tasks) : CallCount(id, 1) = 1
                  /\ Len(failed_tasks_ids) = Cardinality(RaisedIn(1))
           /\ pc = "done" => ret.kind = "DataFrame"

\* C7: the sequential executor invokes the tasks one at a time in insertion order,
\* each at most once; a recognized query failure drops only its task (unless some
\* task raised an unrecognized exception, every task has been invoked when the
\* dispatch ends); the aggregate is the successful results in iteration order.
C7_SequentialOrder ==
    ~supports_threading =>
        /\ running = {} /\ executor = "none"
        /\ Len(calls) <= Len(tasks)
        /\ \A i \in DOMAIN calls : calls[i].id = tasks[i] /\ calls[i].pass = 1
        /\ (pc = "done" /\ \A i \in DOMAIN calls : calls[i].outcome # "Exception")
               => /\ Len(calls) = Len(tasks)
                  /\ ret = [kind |-> "DataFrame", rows |-> OkRows(calls)]

\* A finished sequential dispatch of three tasks, not in ascending order of their
\* identifiers, whose second task raised the recognized query failure and whose
\* first and third succeeded.
C7_Witness ==
    /\ ~supports_threading /\ pc = "done"
    /\ Len(calls) = 3
    /\ tasks[1] > tasks[2]
    /\ calls[1].outcome = "ok"
    /\ calls[2].outcome = "MsticpyDataQueryError"
    /\ calls[3].outcome = "ok"
    /\ Len(ret.rows) = 2

\* C8: when no task fails and the identifiers ascend in insertion order, the
\* threaded executor's aggregate is the sequential executor's aggregate for the
\* same task map, for every completion order.
C8_ParallelEqualsSequential ==
    (/\ supports_threading /\ pc = "done"
     /\ Ascending(tasks)
     /\ \A i \in DOMAIN calls : calls[i].outcome = "ok")
        => ret = SequentialAggregate(tasks)

\* C9: for end > start (and a positive split delta) _calc_split_ranges returns a
\* non-empty list of ranges, the first starting at start, the last ending at end,
\* each starting no later than it ends, each next one starting 1 ns after the
\* previous one ends.
C9_RangesCoverWindow ==
    (pc = "split_done" /\ split_in.end > split_in.start)
        => /\ split_out.status = "ok"
           /\ LET r == split_out.ranges
                  n == Len(r)
              IN  /\ n >= 1
                  /\ r[1][1] = split_in.start
                  /\ r[n][2] = split_in.end
                  /\ \A i \in 1..n : r[i][1] <= r[i][2]
                  /\ \A i \in 1..(n - 1) : r[i + 1][1] = r[i][2] + OneNs

\* C10: for a split delta greater than or equal to end - start (end > start),
\* _calc_split_ranges returns exactly the one range (start, end) and does not fail.
C10_OneRangeWhenDeltaCoversWindow ==
    (/\ pc = "split_done"
     /\ split_in.end > split_in.start
     /\ split_in.split_delta >= split_in.end - split_in.start)
        => split_out = [status |-> "ok",
                        ranges |-> << << split_in.start, split_in.end >> >>]

\* The split_by string of the request does not parse as a duration.
Unparsable == ~ParseTimedelta(NormalizeSplitBy(split_by)).ok

\* C11: for a split_by string that does not parse, no error leaves the split
\* path: the ranges are computed with a split delta of one day and are the ranges
\* an explicit one-day split_by ("1D") gives.
C11_UnparsableSplitByUsesOneDay ==
    (pc = "split_done" /\ Unparsable)
        => /\ split_in.split_delta = OneDay
           /\ split_out.status = "ok"
           /\ split_out = CalcSplitRanges(split_in.start, split_in.end,
                                          SplitDelta(<< "1", "D" >>))

\* The part of C11 that does not say the range computation succeeds: a split_by
\* string that does not parse raises nothing itself and gives what "1D" gives,
\* be it ranges or the IndexError of _calc_split_ranges.
C11_SameOutcomeAsOneDay ==
    (pc = "split_done" /\ Unparsable)
        => /\ split_in.split_delta = OneDay
           /\ split_out = CalcSplitRanges(split_in.start, split_in.end,
                                          SplitDelta(<< "1", "D" >>))

\* C12: a call of _exec_split_query that finds start or end absent from
\* query_params returns None in that step: it raises nothing, computes no ranges,
\* builds no tasks and invokes no query.
C12_MissingBoundsReturnNone ==
    [][ (pc = "split_entry" /\ (query_params.start = << >> \/ query_params.end = << >>))
            => /\ pc' = "split_returned"
               /\ split_rets' = Append(split_rets, NoneResult)
               /\ split_out' = NotCalled /\ split_out = NotCalled
               /\ tasks' = << >> /\ tasks = << >>
               /\ calls' = << >>
               /\ executor' = "none" ]_vars

\* A first call that found start or end absent has returned None, with no ranges
\* computed, no tasks built and no query invoked.
C12_Witness ==
    /\ pc = "split_returned"
    /\ split_rets = << NoneResult >>
    /\ split_out = NotCalled
    /\ tasks = << >>
    /\ calls = << >>

\* C13: with debug set, a second call of _exec_split_query with the same split_by,
\* query source and query_params object returns the transcript the first call
\* returned.
C13_DebugIdempotent ==
    (debug /\ Len(split_rets) >= 2 /\ split_rets[1].kind = "transcript")
        => split_rets[2] = split_rets[1]

GeneratedBounds == DateRange(split_in.start, split_in.end, split_in.split_delta)

\* The number of ranges generated before the boundary correction.
GeneratedCount == IF GeneratedBounds = << >> THEN 0 ELSE Len(GeneratedBounds) - 1

\* The end of the last generated range, and its distance to the requested end.
LastEnd == GeneratedBounds[GeneratedCount + 1] - OneNs
Gap == split_in.end - LastEnd

\* The ranges returned are the generated ones with the last end replaced by end.
LastEndReplaced ==
    /\ Len(split_out.ranges) = GeneratedCount
    /\ \A i \in 1..(GeneratedCount - 1) :
           split_out.ranges[i] = << GeneratedBounds[i], GeneratedBounds[i + 1] - OneNs >>
    /\ split_out.ranges[GeneratedCount] = << GeneratedBounds[GeneratedCount], split_in.end >>

\* The ranges returned are the generated ones and one more, (LastEnd + 1 ns, end).
OneRangeAppended ==
    /\ Len(split_out.ranges) = GeneratedCount + 1
    /\ \A i \in 1..GeneratedCount :
           split_out.ranges[i] = << GeneratedBounds[i], GeneratedBounds[i + 1] - OneNs >>
    /\ split_out.ranges[GeneratedCount + 1] = << LastEnd + OneNs, split_in.end >>

\* A window of 26 hours split by one day gives exactly the two ranges
\* [start, start + 1 day - 1 ns] and [start + 1 day, end].
TwentySixHoursGiveTwoRanges ==
    split_in \in ScenarioInputs
        => split_out.ranges =
               << << split_in.start, split_in.start + OneDay - OneNs >>,
                  << split_in.start + OneDay, split_in.end >> >>

TasksBuilt == pc # "conn_idle"

\* The drivers that have a task in the task map, in the order of the map.
TaskDrivers == [i \in DOMAIN conn_tasks |-> conn_tasks[i][2]]

\* C15: after any sequence of add_connection calls the task map has exactly one
\* task for the primary connection and one for each added connection (1 + N tasks
\* after N calls), the primary's key being "0" when current_connection is empty;
\* no connection's task is replaced by another's.
C15_OneTaskPerConnection ==
    TasksBuilt
        => /\ Len(conn_tasks) = 1 + added
           /\ \A driver \in 0..added :
                  Cardinality({ i \in DOMAIN conn_tasks : conn_tasks[i][2] = driver }) = 1
           /\ current_connection = << >>
                  => \E i \in DOMAIN conn_tasks : conn_tasks[i] = << << "0" >>, PrimaryDriver >>

\* The part of C15 that holds: the first key of the task map is the primary's
\* current_connection, or "0" when that is empty, and every task of the map
\* belongs to the primary or to an added connection, none to two keys.
C15_PrimaryKeyAndDistinctDrivers ==
    TasksBuilt
        => /\ conn_tasks[1][1] = (IF current_connection # << >> THEN current_connection
                                  ELSE << "0" >>)
           /\ \A i, j \in DOMAIN conn_tasks :
                  /\ conn_tasks[i][2] \in 0..added
                  /\ conn_tasks[i][2] = conn_tasks[j][2] => i = j

\* The program counters of _exec_queries_threaded.
ThreadedPcs == {"submit", "await", "sort", "retry_check", "return", "after_retry"}

\* C16: the task batch is run by the threaded executor if and only if the driver
\* reports SUPPORTS_THREADING; otherwise the sequential executor runs it, no pool
\* exists and no two invocations of the batch execute at the same time.
C16_RouteBySupportsThreading ==
    /\ (pc \in ThreadedPcs \/ executor # "none" \/ running # {} \/ work_queue # << >>)
           => supports_threading
    /\ (pc = "sync_loop" \/ sync_idx > 0) => ~supports_threading
    /\ (pc = "done" /\ supports_threading)
           => /\ executor = "shutdown"
              /\ sync_idx = 0
              /\ \A id \in Range(tasks) : CallCount(id, 1) = 1
    /\ (pc = "done" /\ ~supports_threading)
           => /\ executor = "none"
              /\ sync_idx >= 1
              /\ Len(calls) = sync_idx
    /\ ~supports_threading => Cardinality(running) = 0

\* A sequential dispatch (SUPPORTS_THREADING false) has finished after invoking
\* three tasks, one after the other, with no pool.
C16_Witness ==
    /\ pc = "done"
    /\ ~supports_threading
    /\ Len(calls) >= 3
    /\ executor = "none"

\* Invocations of task id that have finished or are executing.
Invocations(id) ==
    Cardinality({ i \in DOMAIN calls : calls[i].id = id })
        + (IF id \in running THEN 1 ELSE 0)

C17_AtMostTwoPasses ==
    /\ Len(callers) <= 1
    /\ callers # << >> => ~retry
    /\ \A i \in DOMAIN calls : calls[i].pass \in {1, 2}
    /\ \A id \in TaskIds :
           /\ Invocations(id) <= 2
           /\ CallCount(id, 1) <= 1
           /\ CallCount(id, 2) <= 1
    /\ (pc = "done" /\ supports_threading) => ret.kind = "DataFrame"

\* C17: the threaded executor runs at most two passes per dispatch: the retry
\* pass runs with retry off and starts no further pass, no task is invoked more
\* than twice, and when every invocation terminates the dispatch eventually
\* returns.
C17_TwoPassesAndTermination ==
    /\ []C17_AtMostTwoPasses
    /\ <>(pc = "done")

\* A threaded dispatch has returned after a retry pass in which a task was
\* invoked for the second time.
C17_Witness ==
    /\ pc = "done"
    /\ supports_threading
    /\ ret.kind = "DataFrame"
    /\ \E id \in TaskIds : CallCount(id, 1) = 1 /\ CallCount(id, 2) = 1

\* Tasks of the current pass whose invocation has finished.
Finished == { done_order[i].id : i \in DOMAIN done_order }

C19_SubmittedAndBounded ==
    /\ Cardinality(running) <= max_workers
    /\ pc = "await"
           => /\ thread_tasks = query_tasks
              /\ Range(thread_tasks) = Range(work_queue) \cup running \cup Finished
              /\ awaited <= Len(done_order)
    /\ (pc \in {"sort", "retry_check"})
           => /\ Range(thread_tasks) = Finished
              /\ work_queue = << >>

\* C19: in a threaded pass every task of the batch is submitted to the pool before
\* the first completion is awaited, at most max_workers invocations execute at any
\* moment, and every task waiting in the pool is eventually executed.
C19_PoolBoundAndProgress ==
    /\ []C19_SubmittedAndBounded
    /\ \A id \in TaskIds :
           (executor = "open" /\ id \in Range(work_queue)) ~> (id \in running)

\* max_workers invocations execute while a further task of the batch waits in the
\* pool, before any completion has been awaited.
C19_Witness ==
    /\ pc = "await"
    /\ awaited = 0
    /\ Cardinality(running) = max_workers
    /\ work_queue # << >>

\* The executor states of the pools of the calls in progress: the suspended
\* callers' and the current call's.
Pools == [i \in DOMAIN callers |-> callers[i].executor] \o << executor >>

PoolsAlive == Cardinality({ i \in DOMAIN Pools : Pools[i] = "open" })

\* C20: the pool of a threaded pass is scoped to the pass: when the executor
\* returns every pool it created is shut down and no invocation is running; the
\* first pass's pool is shut down before the retry pass's pool is created, so at
\* most one pool is alive at any time.
C20_PoolScopedToPass ==
    /\ PoolsAlive <= 1
    /\ \A i \in DOMAIN callers : callers[i].executor = "shutdown"
    /\ (supports_threading /\ pc \in {"sort", "retry_check", "return", "after_retry", "done"})
           => /\ executor = "shutdown"
              /\ running = {}
              /\ work_queue = << >>
    /\ executor # "open" => (running = {} /\ work_queue = << >>)

\* The retry pass's pool is open with an invocation running while the first
\* pass's pool, kept in the suspended caller's frame, is shut down.
C20_Witness ==
    /\ callers # << >>
    /\ callers[1].executor = "shutdown"
    /\ executor = "open"
    /\ running # {}

\* Number of rows of the aggregate that task id's invocation in pass p produced.
RowCount(id, p) ==
    Cardinality({ i \in DOMAIN ret.rows : ret.rows[i].id = id /\ ret.rows[i].pass = p })

\* C21: in the aggregate of a finished threaded dispatch, for every completion
\* order, each task contributes its result at most once: a task whose first-pass
\* invocation succeeded has exactly one result in it, and no task has a result
\* both in the first-pass batch and in the appended retry batch.
C21_EachTaskContributesOnce ==
    (supports_threading /\ pc = "done" /\ ret.kind = "DataFrame")
        => \A id \in Range(tasks) :
               /\ RowCount(id, 1) + RowCount(id, 2) <= 1
               /\ Called(id, 1, "ok") => RowCount(id, 1) + RowCount(id, 2) = 1
               /\ ~(RowCount(id, 1) >= 1 /\ RowCount(id, 2) >= 1)

\* The part of C21 that holds: each invocation contributes its result at most
\* once, each successful invocation of either pass exactly once, and a failed or
\* missing invocation contributes nothing.
C21_EachInvocationContributesOnce ==
    (supports_threading /\ pc = "done" /\ ret.kind = "DataFrame")
        => \A id \in Range(tasks) : \A p \in {1, 2} :
               RowCount(id, p) = (IF Called(id, p, "ok") THEN 1 ELSE 0)

====
